---- MODULE Spec2Model ----
(***************************************************************************)
(* A model of the ecs-rs system layer: EntitySystem and BulkEntitySystem   *)
(* (src/system/entitysystem.rs), IntervalSystem (src/system/interval.rs)   *)
(* and the System trait defaults (src/system/mod.rs).                      *)
(*                                                                         *)
(* The user strategies (`inner`) are modelled as recorders: every call a   *)
(* system forwards is appended to a log, stamped with the number of the    *)
(* delivered call that caused it.                                          *)
(***************************************************************************)
EXTENDS Integers, Sequences, FiniteSets, TLC

\* ------------------------------------------------------------------ bounds
NumEntities == 2
MaxCalls == 3
MaxSmallInterval == 3
MaxPeriods == 2
MaxLifecycle == 2

\* ------------------------------------------------------- program constants
\* `interval: u8`, `ticker: u8`
U8_MAX == 255

\* Entity identifiers (Entity derefs to its integer id: `**entity`).
Entity == 1..NumEntities
\* A world, reduced to what Aspect::check reads of it: the entities whose
\* component composition currently satisfies the system's aspect.
Worlds == SUBSET Entity

VARIABLES
    variant,    \* which system was constructed: "EntitySystem" | "BulkEntitySystem"
    es,         \* the EntitySystem: [interested, inner]
    bs,         \* the BulkEntitySystem: [interested, inner]
    delivered,  \* the calls the driver has made on the system, in order
    isys,       \* the IntervalSystem: [inner, interval, ticker]
    calls,      \* the number of process calls made on the IntervalSystem
    sent,       \* the lifecycle calls made on the IntervalSystem, in order
    lastOp,     \* the last call made on the IntervalSystem
    build,      \* how the build treats u8 overflow: "wrapping" | "checked"
    panicked,   \* a process call on the IntervalSystem panicked
    tsys,       \* an implementor of System that keeps the default reactivated
    tcalls,     \* the number of hook calls made on that implementor
    tlast       \* the last hook call made on that implementor

evars == <<variant, es, bs, delivered>>
ivars == <<isys, calls, sent, lastOp, build, panicked>>
tvars == <<tsys, tcalls, tlast>>
vars == <<variant, es, bs, delivered, isys, calls, sent, lastOp, build, panicked,
          tsys, tcalls, tlast>>

\* ----------------------------------------------------------------- TrieMap
\* TrieMap<Entity>: a map from integer key to value, iterated in ascending
\* key order.  Modelled as a function whose domain is the set of keys.
TrieMap_new == [k \in {} |-> k]

TrieMap_insert(m, k, v) ==
    [x \in (DOMAIN m) \cup {k} |-> IF x = k THEN v ELSE m[x]]

\* Mutant: removing one key empties the map.
TrieMap_remove_clears(m, k) == [x \in {} |-> x]

TrieMap_remove(m, k) == [x \in (DOMAIN m) \ {k} |-> m[x]]

TrieMap_contains_key(m, k) == k \in DOMAIN m

Min(S) == CHOOSE x \in S : \A y \in S : x <= y

RECURSIVE AscendingKeys(_)
AscendingKeys(S) ==
    IF S = {} THEN <<>>
    ELSE <<Min(S)>> \o AscendingKeys(S \ {Min(S)})

TrieMap_values(m) ==
    LET ks == AscendingKeys(DOMAIN m)
    IN  [i \in 1..Len(ks) |-> m[ks[i]]]

\* ------------------------------------------------------------------ Aspect
Aspect_check(entity, world) == entity \in world

\* ------------------------------------------------- the recording strategies
\* The number of the delivered call now being handled.
Stamp == Len(delivered) + 1

Forward(inner, hook, arg) ==
    Append(inner, [hook |-> hook, arg |-> arg, by |-> Stamp])

Strategy_activated(inner, entity) == Forward(inner, "activated", <<entity>>)
Strategy_reactivated(inner, entity) == Forward(inner, "reactivated", <<entity>>)
Strategy_deactivated(inner, entity) == Forward(inner, "deactivated", <<entity>>)
\* EntityProcess::process(&self, &Entity, &mut EntityData)
EntityProcess_process(inner, entity) == Forward(inner, "process", <<entity>>)
\* BulkEntityProcess::process(&self, Vec<&Entity>, &mut EntityData)
BulkEntityProcess_process(inner, entities) == Forward(inner, "process", entities)

\* ------------------------------------------------------------ EntitySystem
EntitySystem_new == [interested |-> TrieMap_new, inner |-> <<>>]

RECURSIVE ForEachProcess(_, _)
ForEachProcess(inner, values) ==
    IF values = <<>> THEN inner
    ELSE ForEachProcess(EntityProcess_process(inner, Head(values)), Tail(values))

\* Mutant: the loop stops after the first interested entity.
EntitySystem_process_first_only(self) ==
    LET values == TrieMap_values(self.interested)
    IN  IF values = <<>> THEN self
        ELSE [self EXCEPT !.inner = EntityProcess_process(self.inner, Head(values))]

EntitySystem_process(self) ==
    [self EXCEPT !.inner = ForEachProcess(self.inner, TrieMap_values(self.interested))]

\* Mutant: an entity already in the interest set is not announced again.
EntitySystem_activated_once(self, entity, world) ==
    IF Aspect_check(entity, world) /\ ~TrieMap_contains_key(self.interested, entity)
    THEN [interested |-> TrieMap_insert(self.interested, entity, entity),
          inner |-> Strategy_activated(self.inner, entity)]
    ELSE self

\* Mutant: the entity is inserted without the strategy being told.
EntitySystem_activated_silent(self, entity, world) ==
    IF Aspect_check(entity, world)
    THEN [self EXCEPT !.interested = TrieMap_insert(self.interested, entity, entity)]
    ELSE self

EntitySystem_activated(self, entity, world) ==
    IF Aspect_check(entity, world)
    THEN [interested |-> TrieMap_insert(self.interested, entity, entity),
          inner |-> Strategy_activated(self.inner, entity)]
    ELSE self

\* Mutant: a newly interesting entity is announced as `reactivated`.
EntitySystem_reactivated_announces_reactivated(self, entity, world) ==
    IF TrieMap_contains_key(self.interested, entity)
    THEN IF Aspect_check(entity, world)
         THEN [self EXCEPT !.inner = Strategy_reactivated(self.inner, entity)]
         ELSE [interested |-> TrieMap_remove(self.interested, entity),
               inner |-> Strategy_deactivated(self.inner, entity)]
    ELSE IF Aspect_check(entity, world)
         THEN [interested |-> TrieMap_insert(self.interested, entity, entity),
               inner |-> Strategy_reactivated(self.inner, entity)]
         ELSE self

EntitySystem_reactivated(self, entity, world) ==
    IF TrieMap_contains_key(self.interested, entity)
    THEN IF Aspect_check(entity, world)
         THEN [self EXCEPT !.inner = Strategy_reactivated(self.inner, entity)]
         ELSE [interested |-> TrieMap_remove(self.interested, entity),
               inner |-> Strategy_deactivated(self.inner, entity)]
    ELSE IF Aspect_check(entity, world)
         THEN [interested |-> TrieMap_insert(self.interested, entity, entity),
               inner |-> Strategy_activated(self.inner, entity)]
         ELSE self

\* Mutant: `deactivated` is forwarded whether or not the entity was present.
EntitySystem_deactivated_unguarded(self, entity, world) ==
    [interested |-> TrieMap_remove(self.interested, entity),
     inner |-> Strategy_deactivated(self.inner, entity)]

EntitySystem_deactivated(self, entity, world) ==
    IF TrieMap_contains_key(self.interested, entity)
    THEN [interested |-> TrieMap_remove(self.interested, entity),
          inner |-> Strategy_deactivated(self.inner, entity)]
    ELSE self

\* -------------------------------------------------------- BulkEntitySystem
BulkEntitySystem_new == [interested |-> TrieMap_new, inner |-> <<>>]

\* Mutant: no call is forwarded when nothing is interested.
BulkEntitySystem_process_skips_empty(self) ==
    IF DOMAIN self.interested = {} THEN self
    ELSE [self EXCEPT !.inner =
            BulkEntityProcess_process(self.inner, TrieMap_values(self.interested))]

BulkEntitySystem_process(self) ==
    [self EXCEPT !.inner =
        BulkEntityProcess_process(self.inner, TrieMap_values(self.interested))]

\* Mutant: the aspect is not consulted.
BulkEntitySystem_activated_unchecked(self, entity, world) ==
    [interested |-> TrieMap_insert(self.interested, entity, entity),
     inner |-> Strategy_activated(self.inner, entity)]

BulkEntitySystem_activated(self, entity, world) ==
    IF Aspect_check(entity, world)
    THEN [interested |-> TrieMap_insert(self.interested, entity, entity),
          inner |-> Strategy_activated(self.inner, entity)]
    ELSE self

\* Mutant: an entity that stopped matching is announced as deactivated but
\* stays in the interest set.
BulkEntitySystem_reactivated_keeps(self, entity, world) ==
    IF TrieMap_contains_key(self.interested, entity)
    THEN IF Aspect_check(entity, world)
         THEN [self EXCEPT !.inner = Strategy_reactivated(self.inner, entity)]
         ELSE [self EXCEPT !.inner = Strategy_deactivated(self.inner, entity)]
    ELSE IF Aspect_check(entity, world)
         THEN [interested |-> TrieMap_insert(self.interested, entity, entity),
               inner |-> Strategy_activated(self.inner, entity)]
         ELSE self

BulkEntitySystem_reactivated(self, entity, world) ==
    IF TrieMap_contains_key(self.interested, entity)
    THEN IF Aspect_check(entity, world)
         THEN [self EXCEPT !.inner = Strategy_reactivated(self.inner, entity)]
         ELSE [interested |-> TrieMap_remove(self.interested, entity),
               inner |-> Strategy_deactivated(self.inner, entity)]
    ELSE IF Aspect_check(entity, world)
         THEN [interested |-> TrieMap_insert(self.interested, entity, entity),
               inner |-> Strategy_activated(self.inner, entity)]
         ELSE self

\* Mutant: the entity is removed without the strategy being told.
BulkEntitySystem_deactivated_silent(self, entity, world) ==
    [self EXCEPT !.interested = TrieMap_remove(self.interested, entity)]

BulkEntitySystem_deactivated(self, entity, world) ==
    IF TrieMap_contains_key(self.interested, entity)
    THEN [interested |-> TrieMap_remove(self.interested, entity),
          inner |-> Strategy_deactivated(self.inner, entity)]
    ELSE self

\* ----------------------------------------------------------------- actions
\* What the driver records of a call: the hook, the entity, and whether the
\* world it passed satisfies the aspect for that entity.
Call(op, entity, world) ==
    [op |-> op, entity |-> entity, holds |-> Aspect_check(entity, world)]

NoEntity == 0
ProcessCall == [op |-> "process", entity |-> NoEntity, holds |-> FALSE]

\* No call made yet.
NoCall == [op |-> "new"]

\* No system constructed (the half of the state a specification leaves alone).
NoSystem == <<>>

Init ==
    /\ variant \in {"EntitySystem", "BulkEntitySystem"}
    /\ es = EntitySystem_new
    /\ bs = BulkEntitySystem_new
    /\ delivered = <<>>
    /\ isys = NoSystem
    /\ calls = 0
    /\ sent = <<>>
    /\ lastOp = "new"
    /\ build = "wrapping"
    /\ panicked = FALSE
    /\ tsys = NoSystem
    /\ tcalls = 0
    /\ tlast = NoCall

ES_process ==
    /\ variant = "EntitySystem"
    /\ Len(delivered) < MaxCalls
    /\ es' = EntitySystem_process(es)
    /\ delivered' = Append(delivered, ProcessCall)
    /\ UNCHANGED <<variant, bs, ivars, tvars>>

ES_activated(entity, world) ==
    /\ variant = "EntitySystem"
    /\ Len(delivered) < MaxCalls
    /\ es' = EntitySystem_activated(es, entity, world)
    /\ delivered' = Append(delivered, Call("activated", entity, world))
    /\ UNCHANGED <<variant, bs, ivars, tvars>>

ES_reactivated(entity, world) ==
    /\ variant = "EntitySystem"
    /\ Len(delivered) < MaxCalls
    /\ es' = EntitySystem_reactivated(es, entity, world)
    /\ delivered' = Append(delivered, Call("reactivated", entity, world))
    /\ UNCHANGED <<variant, bs, ivars, tvars>>

ES_deactivated(entity, world) ==
    /\ variant = "EntitySystem"
    /\ Len(delivered) < MaxCalls
    /\ es' = EntitySystem_deactivated(es, entity, world)
    /\ delivered' = Append(delivered, Call("deactivated", entity, world))
    /\ UNCHANGED <<variant, bs, ivars, tvars>>

BS_process ==
    /\ variant = "BulkEntitySystem"
    /\ Len(delivered) < MaxCalls
    /\ bs' = BulkEntitySystem_process(bs)
    /\ delivered' = Append(delivered, ProcessCall)
    /\ UNCHANGED <<variant, es, ivars, tvars>>

BS_activated(entity, world) ==
    /\ variant = "BulkEntitySystem"
    /\ Len(delivered) < MaxCalls
    /\ bs' = BulkEntitySystem_activated(bs, entity, world)
    /\ delivered' = Append(delivered, Call("activated", entity, world))
    /\ UNCHANGED <<variant, es, ivars, tvars>>

BS_reactivated(entity, world) ==
    /\ variant = "BulkEntitySystem"
    /\ Len(delivered) < MaxCalls
    /\ bs' = BulkEntitySystem_reactivated(bs, entity, world)
    /\ delivered' = Append(delivered, Call("reactivated", entity, world))
    /\ UNCHANGED <<variant, es, ivars, tvars>>

BS_deactivated(entity, world) ==
    /\ variant = "BulkEntitySystem"
    /\ Len(delivered) < MaxCalls
    /\ bs' = BulkEntitySystem_deactivated(bs, entity, world)
    /\ delivered' = Append(delivered, Call("deactivated", entity, world))
    /\ UNCHANGED <<variant, es, ivars, tvars>>

Next ==
    \/ ES_process
    \/ BS_process
    \/ \E entity \in Entity, world \in Worlds :
        \/ ES_activated(entity, world)
        \/ ES_reactivated(entity, world)
        \/ ES_deactivated(entity, world)
        \/ BS_activated(entity, world)
        \/ BS_reactivated(entity, world)
        \/ BS_deactivated(entity, world)

Spec == Init /\ [][Next]_vars

\* ---------------------------------------------------------- IntervalSystem
\* The innermost Process: a recorder of the process calls that reach it (each
\* stamped with the number of the outer process call that caused it) and of
\* the lifecycle calls that reach it.
Recorder_new == [processed |-> <<>>, lifecycle |-> <<>>]

Recorder_process(p) == [p EXCEPT !.processed = Append(@, calls + 1)]

Recorder_hook(p, hook, e) ==
    [p EXCEPT !.lifecycle = Append(@, [hook |-> hook, entity |-> e])]

IsIntervalSystem(sys) == "ticker" \in DOMAIN sys

IntervalSystem_new(system, interval) ==
    [interval |-> interval, ticker |-> 0, inner |-> system]

\* `inner` is any Process: another IntervalSystem or the recorder.
RECURSIVE Inner_process(_)
RECURSIVE Inner_activated(_, _)
RECURSIVE Inner_reactivated(_, _)
RECURSIVE Inner_deactivated(_, _)
RECURSIVE Inner_is_active(_)

\* Mutant: the ticker is not reset when the inner process fires.
IntervalSystem_process_no_reset(self) ==
    LET t == (self.ticker + 1) % (U8_MAX + 1)
    IN  IF t = self.interval
        THEN [self EXCEPT !.ticker = t, !.inner = Inner_process(self.inner)]
        ELSE [self EXCEPT !.ticker = t]

\* Mutant: the ticker is compared before it is incremented, so it counts up
\* to the interval itself and the period is one call too long.
IntervalSystem_process_compares_first(self) ==
    IF self.ticker = self.interval
    THEN [self EXCEPT !.ticker = 0, !.inner = Inner_process(self.inner)]
    ELSE [self EXCEPT !.ticker = (self.ticker + 1) % (U8_MAX + 1)]

\* Mutant: the inner process fires once the ticker has reached the interval
\* or passed it.
IntervalSystem_process_at_least(self) ==
    LET t == (self.ticker + 1) % (U8_MAX + 1)
    IN  IF t >= self.interval
        THEN [self EXCEPT !.ticker = 0, !.inner = Inner_process(self.inner)]
        ELSE [self EXCEPT !.ticker = t]

IntervalSystem_process(self) ==
    LET t == (self.ticker + 1) % (U8_MAX + 1)
    IN  IF t = self.interval
        THEN [self EXCEPT !.ticker = 0, !.inner = Inner_process(self.inner)]
        ELSE [self EXCEPT !.ticker = t]

\* Mutant: the hook is throttled like process, forwarded only on a fresh ticker.
IntervalSystem_activated_throttled(self, e) ==
    IF self.ticker = 0
    THEN [self EXCEPT !.inner = Inner_activated(self.inner, e)]
    ELSE self

IntervalSystem_activated(self, e) ==
    [self EXCEPT !.inner = Inner_activated(self.inner, e)]

\* Mutant: reactivated is left to the trait's default, deactivated followed
\* by activated.
IntervalSystem_reactivated_not_overridden(self, e) ==
    [self EXCEPT !.inner = Inner_activated(Inner_deactivated(self.inner, e), e)]

IntervalSystem_reactivated(self, e) ==
    [self EXCEPT !.inner = Inner_reactivated(self.inner, e)]

\* Mutant: a deactivation restarts the period.
IntervalSystem_deactivated_restarts(self, e) ==
    [self EXCEPT !.ticker = 0, !.inner = Inner_deactivated(self.inner, e)]

IntervalSystem_deactivated(self, e) ==
    [self EXCEPT !.inner = Inner_deactivated(self.inner, e)]

IntervalSystem_is_active(self) ==
    [self EXCEPT !.inner = Inner_is_active(self.inner)]

Inner_process(sys) ==
    IF IsIntervalSystem(sys) THEN IntervalSystem_process(sys)
    ELSE Recorder_process(sys)

Inner_activated(sys, e) ==
    IF IsIntervalSystem(sys) THEN IntervalSystem_activated(sys, e)
    ELSE Recorder_hook(sys, "activated", e)

Inner_reactivated(sys, e) ==
    IF IsIntervalSystem(sys) THEN IntervalSystem_reactivated(sys, e)
    ELSE Recorder_hook(sys, "reactivated", e)

Inner_deactivated(sys, e) ==
    IF IsIntervalSystem(sys) THEN IntervalSystem_deactivated(sys, e)
    ELSE Recorder_hook(sys, "deactivated", e)

Inner_is_active(sys) ==
    IF IsIntervalSystem(sys) THEN IntervalSystem_is_active(sys)
    ELSE Recorder_hook(sys, "is_active", NoEntity)

\* The builds: `ticker += 1` on 255 wraps without overflow checks and panics
\* with them.
Builds == {"wrapping", "checked"}

\* Whether this process call would increment a ticker of 255.
RECURSIVE Overflows(_)
Overflows(sys) ==
    /\ IsIntervalSystem(sys)
    /\ \/ sys.ticker = U8_MAX
       \/ sys.ticker + 1 = sys.interval /\ Overflows(sys.inner)

\* The number of process calls between two fires of the innermost process.
RECURSIVE Period(_)
Period(sys) ==
    IF IsIntervalSystem(sys)
    THEN (IF sys.interval = 0 THEN U8_MAX + 1 ELSE sys.interval) * Period(sys.inner)
    ELSE 1

\* The positive intervals exercised: the small ones and the largest a u8 holds.
PositiveIntervals == (1..MaxSmallInterval) \cup {U8_MAX}

InitInterval ==
    /\ variant = "none"
    /\ es = EntitySystem_new
    /\ bs = BulkEntitySystem_new
    /\ delivered = <<>>
    /\ \E interval \in PositiveIntervals :
         isys = IntervalSystem_new(Recorder_new, interval)
    /\ calls = 0
    /\ sent = <<>>
    /\ lastOp = "new"
    /\ build \in Builds
    /\ panicked = FALSE
    /\ tsys = NoSystem
    /\ tcalls = 0
    /\ tlast = NoCall

\* `self.ticker += 1` on a ticker of 255 wraps to 0 in a build without
\* overflow checks and panics in a build with them.
IS_process ==
    /\ ~panicked
    /\ calls < MaxPeriods * Period(isys) + 1
    /\ IF build = "checked" /\ Overflows(isys)
       THEN panicked' = TRUE /\ isys' = isys
       ELSE panicked' = FALSE /\ isys' = IntervalSystem_process(isys)
    /\ calls' = calls + 1
    /\ lastOp' = "process"
    /\ UNCHANGED <<sent, build, evars, tvars>>

IS_activated(e) ==
    /\ ~panicked
    /\ Len(sent) < MaxLifecycle
    /\ isys' = IntervalSystem_activated(isys, e)
    /\ sent' = Append(sent, [hook |-> "activated", entity |-> e])
    /\ lastOp' = "activated"
    /\ UNCHANGED <<calls, build, panicked, evars, tvars>>

IS_reactivated(e) ==
    /\ ~panicked
    /\ Len(sent) < MaxLifecycle
    /\ isys' = IntervalSystem_reactivated(isys, e)
    /\ sent' = Append(sent, [hook |-> "reactivated", entity |-> e])
    /\ lastOp' = "reactivated"
    /\ UNCHANGED <<calls, build, panicked, evars, tvars>>

IS_deactivated(e) ==
    /\ ~panicked
    /\ Len(sent) < MaxLifecycle
    /\ isys' = IntervalSystem_deactivated(isys, e)
    /\ sent' = Append(sent, [hook |-> "deactivated", entity |-> e])
    /\ lastOp' = "deactivated"
    /\ UNCHANGED <<calls, build, panicked, evars, tvars>>

IS_is_active ==
    /\ ~panicked
    /\ Len(sent) < MaxLifecycle
    /\ isys' = IntervalSystem_is_active(isys)
    /\ sent' = Append(sent, [hook |-> "is_active", entity |-> NoEntity])
    /\ lastOp' = "is_active"
    /\ UNCHANGED <<calls, build, panicked, evars, tvars>>

NextInterval ==
    \/ IS_process
    \/ IS_is_active
    \/ \E e \in Entity :
        \/ IS_activated(e)
        \/ IS_reactivated(e)
        \/ IS_deactivated(e)

SpecInterval == InitInterval /\ [][NextInterval]_vars

\* IntervalSystem::new(system, 0): new takes any u8.
InitZero ==
    /\ variant = "none"
    /\ es = EntitySystem_new
    /\ bs = BulkEntitySystem_new
    /\ delivered = <<>>
    /\ isys = IntervalSystem_new(Recorder_new, 0)
    /\ calls = 0
    /\ sent = <<>>
    /\ lastOp = "new"
    /\ build \in Builds
    /\ panicked = FALSE
    /\ tsys = NoSystem
    /\ tcalls = 0
    /\ tlast = NoCall

SpecZero == InitZero /\ [][NextInterval]_vars

\* IntervalSystem::new(IntervalSystem::new(P, a), b), a and b small.
InitNested ==
    /\ variant = "none"
    /\ es = EntitySystem_new
    /\ bs = BulkEntitySystem_new
    /\ delivered = <<>>
    /\ \E a \in 1..MaxSmallInterval, b \in 1..MaxSmallInterval :
        isys = IntervalSystem_new(IntervalSystem_new(Recorder_new, a), b)
    /\ calls = 0
    /\ sent = <<>>
    /\ lastOp = "new"
    /\ build \in Builds
    /\ panicked = FALSE
    /\ tsys = NoSystem
    /\ tcalls = 0
    /\ tlast = NoCall

SpecNested == InitNested /\ [][NextInterval]_vars

\* ------------------------------------------------------------ trait System
\* An implementor of System that does not override reactivated.  With
\* `overrides` it overrides activated and deactivated, each recording its
\* arguments in `log`; without, it overrides nothing.
Impl_new(overrides) == [overrides |-> overrides, log |-> <<>>]

\* The arguments of a hook: the entity, and the component and service
\* managers the world passes with it.
Contexts == {<<"c1", "s1">>, <<"c2", "s2">>}

HookCall(hook, e, c, s) == [hook |-> hook, entity |-> e, c |-> c, s |-> s]

\* trait System: fn activated(&mut self, _, _, _) { }
System_activated(self, e, c, s) == self

\* trait System: fn deactivated(&mut self, _, _, _) { }
System_deactivated(self, e, c, s) == self

\* self.activated(e, c, s) and self.deactivated(e, c, s), as dispatched on
\* the implementor.
Impl_activated(self, e, c, s) ==
    IF self.overrides
    THEN [self EXCEPT !.log = Append(@, HookCall("activated", e, c, s))]
    ELSE System_activated(self, e, c, s)

Impl_deactivated(self, e, c, s) ==
    IF self.overrides
    THEN [self EXCEPT !.log = Append(@, HookCall("deactivated", e, c, s))]
    ELSE System_deactivated(self, e, c, s)

\* Mutant: the default calls activated first and deactivated second.
System_reactivated_swapped(self, e, c, s) ==
    Impl_deactivated(Impl_activated(self, e, c, s), e, c, s)

\* trait System: fn reactivated(&mut self, e, c, s)
\*     { self.deactivated(e, c, s); self.activated(e, c, s); }
System_reactivated(self, e, c, s) ==
    Impl_activated(Impl_deactivated(self, e, c, s), e, c, s)

InitTrait ==
    /\ variant = "none"
    /\ es = EntitySystem_new
    /\ bs = BulkEntitySystem_new
    /\ delivered = <<>>
    /\ isys = NoSystem
    /\ calls = 0
    /\ sent = <<>>
    /\ lastOp = "new"
    /\ build = "wrapping"
    /\ panicked = FALSE
    /\ \E overrides \in BOOLEAN : tsys = Impl_new(overrides)
    /\ tcalls = 0
    /\ tlast = NoCall

T_activated(e, c, s) ==
    /\ tcalls < MaxCalls
    /\ tsys' = Impl_activated(tsys, e, c, s)
    /\ tcalls' = tcalls + 1
    /\ tlast' = [op |-> "activated", entity |-> e, c |-> c, s |-> s]
    /\ UNCHANGED <<evars, ivars>>

T_reactivated(e, c, s) ==
    /\ tcalls < MaxCalls
    /\ tsys' = System_reactivated(tsys, e, c, s)
    /\ tcalls' = tcalls + 1
    /\ tlast' = [op |-> "reactivated", entity |-> e, c |-> c, s |-> s]
    /\ UNCHANGED <<evars, ivars>>

T_deactivated(e, c, s) ==
    /\ tcalls < MaxCalls
    /\ tsys' = Impl_deactivated(tsys, e, c, s)
    /\ tcalls' = tcalls + 1
    /\ tlast' = [op |-> "deactivated", entity |-> e, c |-> c, s |-> s]
    /\ UNCHANGED <<evars, ivars>>

NextTrait ==
    \E e \in Entity, ctx \in Contexts :
        \/ T_activated(e, ctx[1], ctx[2])
        \/ T_reactivated(e, ctx[1], ctx[2])
        \/ T_deactivated(e, ctx[1], ctx[2])

SpecTrait == InitTrait /\ [][NextTrait]_vars

\* -------------------------------------------------------------- side by side
\* An EntitySystem and a BulkEntitySystem built with the same aspect and
\* driven with the same calls.
InitLockstep ==
    /\ variant = "both"
    /\ es = EntitySystem_new
    /\ bs = BulkEntitySystem_new
    /\ delivered = <<>>
    /\ isys = NoSystem
    /\ calls = 0
    /\ sent = <<>>
    /\ lastOp = "new"
    /\ build = "wrapping"
    /\ panicked = FALSE
    /\ tsys = NoSystem
    /\ tcalls = 0
    /\ tlast = NoCall

LS_process ==
    /\ Len(delivered) < MaxCalls
    /\ es' = EntitySystem_process(es)
    /\ bs' = BulkEntitySystem_process(bs)
    /\ delivered' = Append(delivered, ProcessCall)
    /\ UNCHANGED <<variant, ivars, tvars>>

LS_activated(entity, world) ==
    /\ Len(delivered) < MaxCalls
    /\ es' = EntitySystem_activated(es, entity, world)
    /\ bs' = BulkEntitySystem_activated(bs, entity, world)
    /\ delivered' = Append(delivered, Call("activated", entity, world))
    /\ UNCHANGED <<variant, ivars, tvars>>

LS_reactivated(entity, world) ==
    /\ Len(delivered) < MaxCalls
    /\ es' = EntitySystem_reactivated(es, entity, world)
    /\ bs' = BulkEntitySystem_reactivated(bs, entity, world)
    /\ delivered' = Append(delivered, Call("reactivated", entity, world))
    /\ UNCHANGED <<variant, ivars, tvars>>

LS_deactivated(entity, world) ==
    /\ Len(delivered) < MaxCalls
    /\ es' = EntitySystem_deactivated(es, entity, world)
    /\ bs' = BulkEntitySystem_deactivated(bs, entity, world)
    /\ delivered' = Append(delivered, Call("deactivated", entity, world))
    /\ UNCHANGED <<variant, ivars, tvars>>

NextLockstep ==
    \/ LS_process
    \/ \E entity \in Entity, world \in Worlds :
        \/ LS_activated(entity, world)
        \/ LS_reactivated(entity, world)
        \/ LS_deactivated(entity, world)

SpecLockstep == InitLockstep /\ [][NextLockstep]_vars

\* ======================================================================
\* Properties
\* ======================================================================
Max(S) == CHOOSE x \in S : \A y \in S : x >= y
Last(seq) == seq[Len(seq)]
Elems(seq) == {seq[i] : i \in 1..Len(seq)}

\* The system under test in Spec, its interest set and its strategy's log.
Sys == IF variant = "BulkEntitySystem" THEN bs ELSE es
Interested == DOMAIN Sys.interested
Forwarded == Sys.inner
ForwardedBy(n) == {i \in 1..Len(Forwarded) : Forwarded[i].by = n}
LifecycleHooks == {"activated", "reactivated", "deactivated"}

\* This step is the delivery of call `op` for `entity`.
Delivering(op, entity) ==
    /\ Len(delivered') = Len(delivered) + 1
    /\ Last(delivered').op = op
    /\ Last(delivered').entity = entity

\* The delivered calls that evaluate the aspect for e (activated and
\* reactivated always do, deactivated never does), and those that deactivate e.
EvalCalls(e) ==
    {i \in 1..Len(delivered) :
        delivered[i].entity = e /\ delivered[i].op \in {"activated", "reactivated"}}
DeactCalls(e) ==
    {i \in 1..Len(delivered) :
        delivered[i].entity = e /\ delivered[i].op = "deactivated"}

\* The interest set is exactly the keys S, each mapped to its own entity.
InterestedIs(interested, S) ==
    /\ DOMAIN interested = S
    /\ \A k \in S : interested[k] = k

\* ---------------------------------------------------------------- C1
\* C1: with a positive interval N, after M process calls inner.process has
\* been invoked exactly M div N times, on calls N, 2N, 3N, ..., whatever
\* lifecycle calls were interleaved.
C1_ExactPeriodThrottling ==
    LET N == isys.interval
        fired == isys.inner.processed
    IN  /\ Len(fired) = calls \div N
        /\ \A i \in 1..Len(fired) : fired[i] = i * N

C1_Witness ==
    /\ isys.interval = U8_MAX
    /\ calls = 2 * U8_MAX + 1
    /\ isys.inner.processed = <<U8_MAX, 2 * U8_MAX>>
    /\ sent # <<>>

\* ---------------------------------------------------------------- C2
\* C2: e is in the interest set iff the most recent aspect evaluation the
\* system performed for e returned true and no later deactivated(e) followed.
C2_MembershipCorrectness ==
    \A e \in Entity :
        e \in Interested <=>
            /\ EvalCalls(e) # {}
            /\ delivered[Max(EvalCalls(e))].holds
            /\ \A d \in DeactCalls(e) : d < Max(EvalCalls(e))

\* ---------------------------------------------------------------- C3
\* C3: the lifecycle calls forwarded for an entity alternate properly: the
\* first is activated; activated follows only deactivated; reactivated and
\* deactivated follow only activated or reactivated.
LifecycleOf(e) ==
    {i \in 1..Len(Forwarded) :
        Forwarded[i].hook \in LifecycleHooks /\ Forwarded[i].arg = <<e>>}

C3_ExactlyOnceLifecycle ==
    \A e \in Entity : \A i \in LifecycleOf(e) :
        LET earlier == {j \in LifecycleOf(e) : j < i}
        IN  IF earlier = {}
            THEN Forwarded[i].hook = "activated"
            ELSE IF Forwarded[i].hook = "activated"
                 THEN Forwarded[Max(earlier)].hook = "deactivated"
                 ELSE Forwarded[Max(earlier)].hook # "deactivated"

\* ---------------------------------------------------------------- C4
\* C4: deactivated(e) with e present removes e and forwards exactly one
\* deactivated(e); with e absent, and in particular when it directly follows
\* another deactivated(e), it forwards nothing and changes nothing.
C4_IdempotentDeactivation ==
    [][\A e \in Entity :
        Delivering("deactivated", e) =>
            /\ e \in Interested =>
                /\ InterestedIs(Sys'.interested, Interested \ {e})
                /\ Sys'.inner = Append(Sys.inner,
                        [hook |-> "deactivated", arg |-> <<e>>, by |-> Len(delivered')])
            /\ e \notin Interested => Sys' = Sys
            /\ ( /\ delivered # <<>>
                 /\ Last(delivered).op = "deactivated"
                 /\ Last(delivered).entity = e ) => Sys' = Sys
      ]_vars

C4_Witness ==
    \E e \in Entity :
        LET n == Len(delivered)
        IN  /\ n >= 3
            /\ delivered[n].op = "deactivated" /\ delivered[n].entity = e
            /\ delivered[n - 1].op = "deactivated" /\ delivered[n - 1].entity = e
            /\ Cardinality(ForwardedBy(n - 1)) = 1
            /\ \A i \in ForwardedBy(n - 1) :
                    Forwarded[i].hook = "deactivated" /\ Forwarded[i].arg = <<e>>
            /\ ForwardedBy(n) = {}
            /\ e \notin Interested

\* ---------------------------------------------------------------- C5
\* C5: while every aspect evaluation for e has returned false, e is not in
\* the interest set and no forwarded call mentions e.
C5_NoSpuriousNotification ==
    \A e \in Entity :
        (\A i \in EvalCalls(e) : ~delivered[i].holds) =>
            /\ e \notin Interested
            /\ \A i \in 1..Len(Forwarded) : e \notin Elems(Forwarded[i].arg)

C5_Witness ==
    \E e \in Entity :
        /\ \E i, j \in EvalCalls(e) :
                delivered[i].op = "activated" /\ delivered[j].op = "reactivated"
        /\ \A i \in EvalCalls(e) : ~delivered[i].holds
        /\ e \notin Interested
        /\ \A i \in 1..Len(Forwarded) : e \notin Elems(Forwarded[i].arg)
        /\ Forwarded # <<>>

\* ---------------------------------------------------------------- C6
\* C6: every activated, reactivated or deactivated call on the
\* IntervalSystem has reached inner exactly once, as the same hook for the
\* same entity, by the time the call returns, whatever the ticker.
IsLifecycle(c) == c.hook \in LifecycleHooks

C6_LifecyclePassThrough ==
    SelectSeq(isys.inner.lifecycle, IsLifecycle) = SelectSeq(sent, IsLifecycle)

C6_Witness ==
    /\ lastOp \in LifecycleHooks
    /\ isys.ticker # 0
    /\ isys.ticker + 1 # isys.interval
    /\ sent # <<>>
    /\ Last(sent).hook = lastOp
    /\ isys.inner.lifecycle = sent

\* ---------------------------------------------------------------- C7
\* C7: one BulkEntitySystem.process call forwards exactly one process call,
\* whose collection holds each entity of the interest set once and nothing
\* else (an empty collection when the set is empty), and leaves the set alone.
C7_BulkSnapshotCompleteness ==
    [][(variant = "BulkEntitySystem" /\ Delivering("process", NoEntity)) =>
        LET n == Len(bs'.inner)
        IN  /\ n = Len(bs.inner) + 1
            /\ SubSeq(bs'.inner, 1, n - 1) = bs.inner
            /\ bs'.inner[n].hook = "process"
            /\ bs'.inner[n].by = Len(delivered')
            /\ Elems(bs'.inner[n].arg) = DOMAIN bs.interested
            /\ Len(bs'.inner[n].arg) = Cardinality(DOMAIN bs.interested)
            /\ bs'.interested = bs.interested
      ]_vars

C7_Witness ==
    /\ variant = "BulkEntitySystem"
    /\ delivered # <<>>
    /\ Last(delivered).op = "process"
    /\ \E i, j \in 1..Len(bs.inner) :
        /\ i < j
        /\ bs.inner[i].hook = "process" /\ bs.inner[i].arg = <<>>
        /\ bs.inner[j].hook = "process" /\ bs.inner[j].by = Len(delivered)
        /\ Elems(bs.inner[j].arg) = DOMAIN bs.interested
        /\ bs.inner[j].arg # <<>>

\* ---------------------------------------------------------------- C8
\* C8: one EntitySystem.process call forwards one process(entity) call for
\* each entity of the interest set, none twice, none for any other entity
\* (so none at all when the set is empty), and leaves the set alone.
C8_PerEntityCompleteness ==
    [][(variant = "EntitySystem" /\ Delivering("process", NoEntity)) =>
        LET old == Len(es.inner)
            new == Len(es'.inner)
        IN  /\ new = old + Cardinality(DOMAIN es.interested)
            /\ SubSeq(es'.inner, 1, old) = es.inner
            /\ \A i \in (old + 1)..new :
                /\ es'.inner[i].hook = "process"
                /\ es'.inner[i].by = Len(delivered')
                /\ Len(es'.inner[i].arg) = 1
            /\ {es'.inner[i].arg[1] : i \in (old + 1)..new} = DOMAIN es.interested
            /\ es'.interested = es.interested
      ]_vars

C8_Witness ==
    /\ variant = "EntitySystem"
    /\ delivered # <<>>
    /\ Last(delivered).op = "process"
    /\ Cardinality(DOMAIN es.interested) >= 2
    /\ {es.inner[i].arg[1] : i \in {k \in 1..Len(es.inner) :
            es.inner[k].hook = "process" /\ es.inner[k].by = Len(delivered)}}
        = DOMAIN es.interested

\* ---------------------------------------------------------------- C9
\* C9: reactivated(e) with e absent: if the aspect holds, e is inserted and
\* exactly one activated(e) is forwarded; if not, nothing changes and nothing
\* is forwarded.
C9_ReactivatedAbsent ==
    [][\A e \in Entity :
        (Delivering("reactivated", e) /\ e \notin Interested) =>
            IF Last(delivered').holds
            THEN /\ InterestedIs(Sys'.interested, Interested \cup {e})
                 /\ Sys'.inner = Append(Sys.inner,
                        [hook |-> "activated", arg |-> <<e>>, by |-> Len(delivered')])
            ELSE Sys' = Sys
      ]_vars

C9_Witness ==
    \E e \in Entity :
        /\ delivered # <<>> /\ Forwarded # <<>>
        /\ Last(delivered) = [op |-> "reactivated", entity |-> e, holds |-> TRUE]
        /\ Last(Forwarded) =
                [hook |-> "activated", arg |-> <<e>>, by |-> Len(delivered)]
        /\ Cardinality(ForwardedBy(Len(delivered))) = 1
        /\ e \in Interested

\* ---------------------------------------------------------------- C10
\* C10: reactivated(e) with e present: if the aspect still holds, exactly one
\* reactivated(e) is forwarded and the interest set is untouched; if not, e
\* is removed and exactly one deactivated(e) is forwarded.
C10_ReactivatedPresent ==
    [][\A e \in Entity :
        (Delivering("reactivated", e) /\ e \in Interested) =>
            IF Last(delivered').holds
            THEN /\ Sys'.interested = Sys.interested
                 /\ Sys'.inner = Append(Sys.inner,
                        [hook |-> "reactivated", arg |-> <<e>>, by |-> Len(delivered')])
            ELSE /\ InterestedIs(Sys'.interested, Interested \ {e})
                 /\ Sys'.inner = Append(Sys.inner,
                        [hook |-> "deactivated", arg |-> <<e>>, by |-> Len(delivered')])
      ]_vars

C10_Witness ==
    \E e \in Entity :
        /\ Len(delivered) >= 3 /\ Len(Forwarded) >= 2
        /\ Last(delivered) = [op |-> "reactivated", entity |-> e, holds |-> FALSE]
        /\ delivered[Len(delivered) - 1] =
                [op |-> "reactivated", entity |-> e, holds |-> TRUE]
        /\ Last(Forwarded) =
                [hook |-> "deactivated", arg |-> <<e>>, by |-> Len(delivered)]
        /\ Forwarded[Len(Forwarded) - 1] =
                [hook |-> "reactivated", arg |-> <<e>>, by |-> Len(delivered) - 1]
        /\ e \notin Interested

\* ---------------------------------------------------------------- C11
\* C11: activated(e), whether e is absent or already present: if the aspect
\* holds, e is in the interest set afterwards (the other entities as before)
\* and exactly one activated(e) is forwarded; if not, nothing changes and
\* nothing is forwarded.
C11_Activated ==
    [][\A e \in Entity :
        Delivering("activated", e) =>
            IF Last(delivered').holds
            THEN /\ InterestedIs(Sys'.interested, Interested \cup {e})
                 /\ Sys'.inner = Append(Sys.inner,
                        [hook |-> "activated", arg |-> <<e>>, by |-> Len(delivered')])
            ELSE Sys' = Sys
      ]_vars

\* activated(e) delivered twice with the aspect true, then once with it false.
C11_Witness ==
    \E e \in Entity :
        /\ Len(delivered) = 3
        /\ delivered[1] = [op |-> "activated", entity |-> e, holds |-> TRUE]
        /\ delivered[2] = [op |-> "activated", entity |-> e, holds |-> TRUE]
        /\ delivered[3] = [op |-> "activated", entity |-> e, holds |-> FALSE]
        /\ Forwarded = << [hook |-> "activated", arg |-> <<e>>, by |-> 1],
                          [hook |-> "activated", arg |-> <<e>>, by |-> 2] >>
        /\ Interested = {e}

\* ---------------------------------------------------------------- C12
\* C12: with a positive interval, after construction and after every process
\* call 0 <= ticker < interval, and ticker is the number of process calls
\* made since inner.process last fired (since construction if it never did).
C12_TickerBound ==
    LET fired == isys.inner.processed
        lastFire == IF fired = <<>> THEN 0 ELSE Last(fired)
    IN  /\ 0 <= isys.ticker
        /\ isys.ticker < isys.interval
        /\ isys.ticker = calls - lastFire

C12_Witness ==
    /\ isys.interval = U8_MAX
    /\ isys.ticker = U8_MAX - 1
    /\ isys.inner.processed = <<U8_MAX>>
    /\ lastOp = "process"

\* ---------------------------------------------------------------- C13
\* C13: on a System that keeps the default reactivated, one reactivated call
\* invokes the system's own deactivated once and then its own activated
\* once, with the arguments it was given; the default activated and
\* deactivated do nothing.
TraitCall(op) == tcalls' = tcalls + 1 /\ tlast'.op = op

C13_DefaultReactivated ==
    [][ /\ TraitCall("reactivated") =>
            IF tsys.overrides
            THEN tsys'.log = tsys.log \o
                    << HookCall("deactivated", tlast'.entity, tlast'.c, tlast'.s),
                       HookCall("activated", tlast'.entity, tlast'.c, tlast'.s) >>
            ELSE tsys' = tsys
        /\ ((TraitCall("activated") \/ TraitCall("deactivated")) /\ ~tsys.overrides)
            => tsys' = tsys
      ]_vars

C13_Witness ==
    /\ tsys.overrides
    /\ tlast.op = "reactivated"
    /\ tcalls = 2
    /\ Len(tsys.log) = 3
    /\ tsys.log[1].hook = "activated"
    /\ tsys.log[2] = HookCall("deactivated", tlast.entity, tlast.c, tlast.s)
    /\ tsys.log[3] = HookCall("activated", tlast.entity, tlast.c, tlast.s)
    /\ tsys.log[1].entity # tlast.entity
    /\ tsys.log[1].c # tlast.c

\* ---------------------------------------------------------------- C14
\* C14: new accepts interval 0; inner.process fires on none of the first 255
\* process calls, and with the ticker wrapping as an 8-bit counter it fires
\* exactly when the ticker wraps to 0, on calls 256, 512, ...
C14_IntervalZero ==
    LET fired == isys.inner.processed
    IN  /\ isys.interval = 0
        /\ calls <= U8_MAX => fired = <<>>
        /\ build = "wrapping" =>
            /\ Len(fired) = calls \div (U8_MAX + 1)
            /\ \A i \in 1..Len(fired) : fired[i] = i * (U8_MAX + 1)

C14_Witness ==
    /\ isys.interval = 0
    /\ build = "wrapping"
    /\ calls = 2 * (U8_MAX + 1) + 1
    /\ isys.inner.processed = <<U8_MAX + 1, 2 * (U8_MAX + 1)>>
    /\ isys.ticker = 1

\* In a build with overflow checks call 256 panics and inner.process never
\* fires at all.
C14_CheckedBuildPanics ==
    build = "checked" =>
        /\ isys.inner.processed = <<>>
        /\ panicked <=> calls = U8_MAX + 1

\* ---------------------------------------------------------------- C15
\* C15: an EntitySystem and a BulkEntitySystem given the same aspect and the
\* same lifecycle calls hold equal interest sets after every call and have
\* forwarded the same lifecycle calls, in the same order, to their strategies.
C15_SameLifecycle ==
    /\ es.interested = bs.interested
    /\ SelectSeq(es.inner, IsLifecycle) = SelectSeq(bs.inner, IsLifecycle)

\* activated, reactivated and deactivated have each been forwarded.
C15_Witness ==
    /\ variant = "both"
    /\ Len(delivered) = 3
    /\ {es.inner[i].hook : i \in 1..Len(es.inner)} = LifecycleHooks
    /\ {bs.inner[i].hook : i \in 1..Len(bs.inner)} = LifecycleHooks
    /\ es.inner = bs.inner

\* ---------------------------------------------------------------- C16
\* C16: in IntervalSystem(IntervalSystem(P, a), b) with positive a and b,
\* P.process has fired exactly on the outer process calls a*b, 2*a*b, ...,
\* and every lifecycle call made on the outer wrapper has reached P once.
C16_NestedThrottling ==
    LET a == isys.inner.interval
        b == isys.interval
        P == isys.inner.inner
    IN  /\ Len(P.processed) = calls \div (a * b)
        /\ \A i \in 1..Len(P.processed) : P.processed[i] = i * a * b
        /\ SelectSeq(P.lifecycle, IsLifecycle) = SelectSeq(sent, IsLifecycle)

C16_Witness ==
    /\ isys.inner.interval = 2
    /\ isys.interval = 3
    /\ calls = 13
    /\ isys.inner.inner.processed = <<6, 12>>
    /\ Len(sent) = 2
    /\ isys.inner.inner.lifecycle = sent
    /\ sent[1].hook = "reactivated"

\* ---------------------------------------------------------------- C17
\* C17: the entities for which the strategy has been forwarded an activated
\* with no deactivated after it are exactly the entities of the interest set.
ActiveForStrategy ==
    {e \in Entity :
        \E i \in LifecycleOf(e) :
            /\ Forwarded[i].hook = "activated"
            /\ \A j \in LifecycleOf(e) : j > i => Forwarded[j].hook # "deactivated"}

C17_StrategyViewMatches == ActiveForStrategy = Interested

\* One entity came and went, another is still interesting.
C17_Witness ==
    \E e1, e2 \in Entity :
        /\ e1 # e2
        /\ Interested = {e2}
        /\ ActiveForStrategy = {e2}
        /\ \E i, j \in LifecycleOf(e1) :
            i < j /\ Forwarded[i].hook = "activated" /\ Forwarded[j].hook = "deactivated"

\* ---------------------------------------------------------------- C18
\* C18: activated, reactivated, deactivated and is_active on an
\* IntervalSystem leave ticker and interval unchanged and do not invoke
\* inner.process, so the number of the call on which inner.process next
\* fires is what it was before.
NextFire == calls + (isys.interval - isys.ticker)

C18_LifecycleKeepsSchedule ==
    [][Len(sent') = Len(sent) + 1 =>
        /\ isys'.ticker = isys.ticker
        /\ isys'.interval = isys.interval
        /\ isys'.inner.processed = isys.inner.processed
        /\ NextFire' = NextFire
      ]_vars

\* Mid-period, one call before the second fire, after two such calls.
C18_Witness ==
    /\ isys.interval > 1
    /\ isys.ticker = isys.interval - 1
    /\ isys.inner.processed = <<isys.interval>>
    /\ NextFire = 2 * isys.interval
    /\ Len(sent) = 2
    /\ sent[1].hook = "deactivated"
    /\ lastOp = "is_active"

\* ---------------------------------------------------------------- C19
\* C19: a lifecycle call for e leaves every other entity's membership as it
\* was and forwards at most one call, a lifecycle call for e; a process call
\* leaves the interest set as it was.
C19_PerEntityIsolation ==
    [][ /\ \A e \in Entity :
            (\E op \in LifecycleHooks : Delivering(op, e)) =>
                LET old == Len(Sys.inner)
                    new == Len(Sys'.inner)
                IN  /\ \A other \in Entity \ {e} :
                        /\ other \in Interested <=> other \in Interested'
                        /\ other \in Interested =>
                                Sys'.interested[other] = Sys.interested[other]
                    /\ new <= old + 1
                    /\ SubSeq(Sys'.inner, 1, old) = Sys.inner
                    /\ \A i \in (old + 1)..new :
                        /\ Sys'.inner[i].hook \in LifecycleHooks
                        /\ Sys'.inner[i].arg = <<e>>
        /\ Delivering("process", NoEntity) => Sys'.interested = Sys.interested
      ]_vars

\* Two entities were interesting and one of them has just been deactivated.
C19_Witness ==
    \E e, other \in Entity :
        /\ e # other
        /\ Len(delivered) = 3
        /\ Last(delivered).op = "deactivated" /\ Last(delivered).entity = e
        /\ Len(Forwarded) = 3
        /\ Last(Forwarded) = [hook |-> "deactivated", arg |-> <<e>>, by |-> 3]
        /\ Interested = {other}

====
